---- MODULE Spec2Model ----
(***************************************************************************)
(* Exact Equal Shares (PB_scripts/core/ees.py) and the ADD-OPT /           *)
(* GREEDYPROJECTCHANGE certifiers (PB_scripts/core/add_opt.py), over exact *)
(* rational arithmetic.                                                    *)
(*                                                                         *)
(* Money is an exact rational <<numerator, denominator>> in lowest terms   *)
(* with a positive denominator; float("inf") is <<1, 0>>.                  *)
(***************************************************************************)
EXTENDS Integers, Sequences, FiniteSets, TLC

\* ---------------------------------------------------------------- bounds
NumVoters == 3
NumProjects == 2
MaxCost == 2
MaxBudget == 6
MaxCalls == 2
FracDen == 2
\* exact_method_of_equal_shares_add_one: the largest budget it starts from
\* and the most unit increases it is followed through
MaxAddOneBudget == 2
MaxIncreases == 4

Voters == 1..NumVoters
\* A project is identified by the rank of its name: project.name > other.name
\* in the source is p > q here.
Projects == 1..NumProjects

\* ------------------------------------------------------- exact rationals
Abs(x) == IF x < 0 THEN -x ELSE x

RECURSIVE GCD(_, _)
GCD(a, b) == IF b = 0 THEN a ELSE GCD(b, a % b)

Inf == <<1, 0>>
IsInf(x) == x[2] = 0

Norm(n, d) ==
    LET g == GCD(Abs(n), Abs(d))
        s == IF d < 0 THEN -1 ELSE 1
    IN  <<(s * n) \div g, (s * d) \div g>>

Rat(n) == <<n, 1>>
Zero == Rat(0)

RAdd(x, y) == IF IsInf(x) \/ IsInf(y) THEN Inf
              ELSE Norm(x[1] * y[2] + y[1] * x[2], x[2] * y[2])
RSub(x, y) == IF IsInf(x) THEN Inf
              ELSE Norm(x[1] * y[2] - y[1] * x[2], x[2] * y[2])
RMul(x, y) == Norm(x[1] * y[1], x[2] * y[2])
\* x / k for a positive integer k
RDivInt(x, k) == Norm(x[1], x[2] * k)
\* x / y for a positive rational y
RDiv(x, y) == Norm(x[1] * y[2], x[2] * y[1])
RLt(x, y) == IF IsInf(x) THEN FALSE
             ELSE IF IsInf(y) THEN TRUE
             ELSE x[1] * y[2] < y[1] * x[2]
RLe(x, y) == x = y \/ RLt(x, y)
RMin(x, y) == IF RLt(y, x) THEN y ELSE x

RECURSIVE RSum(_, _)
\* sum(f[x] for x in S)
RSum(f, S) == IF S = {} THEN Zero
              ELSE LET x == CHOOSE y \in S : TRUE
                   IN  RAdd(f[x], RSum(f, S \ {x}))

\* ------------------------------------------------------------- the state
VARIABLES
    approved,        \* profile: voter -> set of approved projects
    cost,            \* project.cost
    project_meta,    \* instance.project_meta: the projects in enumeration order
    utility,         \* "cardinal" or "cost": the utility_function passed
    budget_limit,    \* instance.budget_limit
    pc,              \* "idle" | "loop" | "done": position in exact_method_of_equal_shares
    shares,          \* voter -> remaining budget
    X_payments,      \* <<voter, project>> -> payment
    funded_projects, \* selection order: sequence of <<project, bang_per_buck>>
    total_cost,
    start_budget,    \* the budget the running call divided among the voters
    iterations,      \* iterations of the while loop in the running call
    calls,           \* calls of exact_method_of_equal_shares made so far
    budget_arg,      \* the budget argument of the latest call (0: no override)
    min_budget_increase, \* the completion loop's latest ADD-OPT result
    prev,            \* the outcome of the previous call and what was asked next
    \* exact_method_of_equal_shares_add_one: its arguments and locals
    utility_type,
    stop_on_overspend,
    add_one_initial_budget, \* initial_budget of the wrapper: int(instance.budget_limit)
    increase_counter,
    highest_spend_so_far,
    best_result_so_far, \* <<>> or <<funded_projects, payments, shares, total_cost>>
    add_one_pc       \* "none" | "call" | "match" | "running" | "unpack" |
                     \* "returned" | "ValueError": position in the wrapper

vars == <<approved, cost, project_meta, utility, budget_limit, pc, shares,
          X_payments, funded_projects, total_cost, start_budget, iterations,
          calls, budget_arg, min_budget_increase, prev,
          utility_type, stop_on_overspend, add_one_initial_budget, increase_counter,
          highest_spend_so_far, best_result_so_far, add_one_pc>>

inputs == <<approved, cost, project_meta, utility>>

add_one_vars == <<utility_type, stop_on_overspend, add_one_initial_budget,
                  increase_counter, highest_spend_so_far, best_result_so_far,
                  add_one_pc>>

\* ------------------------------------------------------ core/utils.py
cardinal_utility(p) == Rat(1)
cost_utility(p) == Rat(cost[p])
utility_function(p) == IF utility = "cardinal" THEN cardinal_utility(p)
                       ELSE cost_utility(p)

\* [item for item in sd if item[0] in keys_to_keep]
filter_sd(sd, keys_to_keep) == SelectSeq(sd, LAMBDA item : item[1] \in keys_to_keep)

\* utility(project) * number_paying_voters / project.cost
calculate_bang_per_buck(p, number_paying_voters) ==
    RDivInt(RMul(utility_function(p), Rat(number_paying_voters)), cost[p])

\* get_project_support with "project in voter['approved']" always true
get_project_support_everyone == [p \in Projects |-> Voters]

\* {project: [voter['name'] for voter in profile if project in voter['approved']]
\*  for project in projects}
get_project_support == [p \in Projects |-> {v \in Voters : p \in approved[v]}]

initialize_payments == [vp \in Voters \X Projects |-> Zero]

initialize_shares_undivided(budget) == [v \in Voters |-> budget]
initialize_shares(budget) == [v \in Voters |-> RDivInt(budget, NumVoters)]

\* Python's sorted(pairs, key=lambda item: item[1]) on (key, value) pairs:
\* ascending and stable, so pairs with equal values keep the order they have
\* in seq.
SortedByValue(seq) ==
    LET before(a, b) == \/ RLt(seq[a][2], seq[b][2])
                        \/ (~RLt(seq[b][2], seq[a][2]) /\ a < b)
        rank(a) == Cardinality({b \in DOMAIN seq : before(b, a)}) + 1
    IN  [i \in DOMAIN seq |-> seq[CHOOSE a \in DOMAIN seq : rank(a) = i]]

\* the profile, in order: voter names are 1..n
VoterSeq == [i \in 1..NumVoters |-> i]

\* d.items() for a dict created in profile order
Items(d) == [i \in 1..NumVoters |-> <<VoterSeq[i], d[VoterSeq[i]]>>]

\* ------------------------------------- core/ees.py: one iteration's search
FundedSet == {funded_projects[k][1] : k \in 1..Len(funded_projects)}

RECURSIVE ScanSupportersUndecremented(_, _, _)
\* ScanSupporters without "number_paying_voters -= 1"
ScanSupportersUndecremented(supp_shares, p, i) ==
    IF i > Len(supp_shares) THEN 0
    ELSE IF RLe(RDivInt(Rat(cost[p]), Len(supp_shares)), supp_shares[i][2]) THEN i
    ELSE ScanSupportersUndecremented(supp_shares, p, i + 1)

RECURSIVE ScanSupporters(_, _, _)
\* The scan "for i in range(len(supp_shares))" from position i (1-based) on:
\* the first position whose voter affords cost / number_paying_voters, where
\* number_paying_voters counts the voters from that position to the end;
\* 0 when the scan ends without a break.
ScanSupporters(supp_shares, p, i) ==
    IF i > Len(supp_shares) THEN 0
    ELSE LET number_paying_voters == Len(supp_shares) - i + 1
             max_contribution == RDivInt(Rat(cost[p]), number_paying_voters)
         IN  IF RLe(max_contribution, supp_shares[i][2]) THEN i
             ELSE ScanSupporters(supp_shares, p, i + 1)

\* NoBest with max_bang_per_buck = 1
NoBestAboveOne == [project |-> 0, max_bang_per_buck |-> Rat(1), best_index |-> 0,
                   best_supp_shares |-> <<>>]

\* best_project = None, max_bang_per_buck = 0, best_index = 0, best_supp_shares = None
NoBest == [project |-> 0, max_bang_per_buck |-> Zero, best_index |-> 0,
           best_supp_shares |-> <<>>]

\* AlreadyFunded without the test
NeverFunded(p) == FALSE

\* "if project in funded_projects: continue"
AlreadyFunded(p) == p \in FundedSet

\* WinsTie with the comparison reversed
SmallerNameWins(p, q) == p < q

\* WinsTie that never replaces the project found first
FirstFoundWins(p, q) == FALSE

\* "project.name > best_project[0].name": project p wins a tie against q
WinsTie(p, q) == p > q

\* The body of "for project in projects" for one project.
ConsiderProject(best, p, supp_shares_base) ==
    IF AlreadyFunded(p) THEN best
    ELSE IF get_project_support[p] = {} THEN best
    ELSE LET supp_shares == filter_sd(supp_shares_base, get_project_support[p])
             i == ScanSupporters(supp_shares, p, 1)
             bang_per_buck == calculate_bang_per_buck(p, Len(supp_shares) - i + 1)
             taken == [project |-> p, max_bang_per_buck |-> bang_per_buck,
                       best_index |-> i, best_supp_shares |-> supp_shares]
         IN  IF i = 0 THEN best
             ELSE IF RLt(best.max_bang_per_buck, bang_per_buck) THEN taken
             ELSE IF bang_per_buck = best.max_bang_per_buck /\ best.project # 0
                  THEN IF WinsTie(p, best.project) THEN taken ELSE best
             ELSE best

RECURSIVE ScanProjects(_, _, _)
\* "for project in projects", from position j of the enumeration on
ScanProjects(best, j, supp_shares_base) ==
    IF j > Len(project_meta) THEN best
    ELSE ScanProjects(ConsiderProject(best, project_meta[j], supp_shares_base),
                      j + 1, supp_shares_base)

\* What one iteration of "while True" selects from the current shares.
BestProject == ScanProjects(NoBest, 1, SortedByValue(Items(shares)))

\* Payers that starts one position late
PayersFromNext(best) ==
    {best.best_supp_shares[k][1] :
        k \in (best.best_index + 1)..Len(best.best_supp_shares)}

\* Payers that takes every supporter
PayersAllSupporters(best) ==
    {best.best_supp_shares[k][1] : k \in 1..Len(best.best_supp_shares)}

\* best_supp_shares[best_index:] : the voters who pay
Payers(best) ==
    {best.best_supp_shares[k][1] :
        k \in best.best_index..Len(best.best_supp_shares)}

\* Contribution that divides by all the supporters
ContributionOverSupporters(best) ==
    RDivInt(Rat(cost[best.project]), Len(best.best_supp_shares))

\* cost / (len(best_supp_shares) - best_index), best_index counted from 0
Contribution(best) ==
    RDivInt(Rat(cost[best.project]),
            Len(best.best_supp_shares) - best.best_index + 1)

\* ------------------------------------ core/add_opt.py: cardinal certifier
\* funded_projects.keys(): the selected projects in selection order
Keys(funded) == [k \in 1..Len(funded) |-> funded[k][1]]

\* PaidBy that forgets the payments
PaidByNothing(v, selected_projects, payments) == Zero

\* sum(payments.get((voter, p), 0) for p in selected_projects)
PaidBy(v, selected_projects, payments) ==
    RSum([k \in 1..Len(selected_projects) |-> payments[<<v, selected_projects[k]>>]],
         1..Len(selected_projects))

\* max(((p, payments[(voter, p)]) for p in selected_projects), key=amount,
\* default=(None, 0)): the first pair, in selection order, of maximal amount;
\* None is project 0.
MaxPayment(v, selected_projects, payments) ==
    IF Len(selected_projects) = 0 THEN <<0, Zero>>
    ELSE LET pay(k) == payments[<<v, selected_projects[k]>>]
             k == CHOOSE a \in 1..Len(selected_projects) :
                    /\ \A b \in 1..Len(selected_projects) : RLe(pay(b), pay(a))
                    /\ \A b \in 1..(a - 1) : RLt(pay(b), pay(a))
         IN  <<selected_projects[k], pay(k)>>

\* sorted(max_payments.items(), key=lambda x: (x[1][1], x[1][0])) on
\* (voter, (project, amount)) items
SortedByAmountThenProject(seq) ==
    LET less(a, b) == \/ RLt(seq[a][2][2], seq[b][2][2])
                      \/ (seq[a][2][2] = seq[b][2][2] /\ seq[a][2][1] < seq[b][2][1])
        before(a, b) == less(a, b) \/ (~less(b, a) /\ a < b)
        rank(a) == Cardinality({b \in DOMAIN seq : before(b, a)}) + 1
    IN  [i \in DOMAIN seq |-> seq[CHOOSE a \in DOMAIN seq : rank(a) = i]]

\* Everything greedy_project_change_approvals computes before its sweep.
GpcaSetup(initial_budget, selected_projects, payments, project) ==
    LET supporters == SelectSeq(VoterSeq, LAMBDA v : project \in approved[v])
        supporters_not_paying ==
            SelectSeq(supporters, LAMBDA v : payments[<<v, project>>] = Zero)
        leftover_budgets ==
            [k \in 1..Len(supporters_not_paying) |->
                <<supporters_not_paying[k],
                  RSub(RDivInt(initial_budget, NumVoters),
                       PaidBy(supporters_not_paying[k], selected_projects, payments))>>]
        max_payments == [v \in Voters |-> MaxPayment(v, selected_projects, payments)]
        max_items == [k \in 1..Len(supporters_not_paying) |->
                        <<supporters_not_paying[k], max_payments[supporters_not_paying[k]]>>]
    IN  [project |-> project,
         supporters_not_paying |-> supporters_not_paying,
         paying |-> Cardinality({k \in 1..Len(supporters) :
                        RLt(Zero, payments[<<supporters[k], project>>])}),
         max_payments |-> max_payments,
         sorted_leftovers |-> SortedByValue(leftover_budgets),
         sorted_max_payments |-> SortedByAmountThenProject(max_items)]

\* min_increase = inf, solvent = set(), liquid = set(supporters_not_paying), i, j = 0, 0
\* (the cursors are 1-based here)
GpcaStart(c) ==
    [i |-> 1, j |-> 1, solvent |-> {},
     liquid |-> {c.supporters_not_paying[k] : k \in 1..Len(c.supporters_not_paying)},
     min_increase |-> Inf]

\* GpcaVoter with "voter_max_pay > pvp" turned into "voter_max_pay < pvp"
GpcaVoterReversed(st, c, pvp) ==
    LET current_voter == c.sorted_leftovers[st.i][1]
        voter_max_pay == c.max_payments[current_voter][2]
        voter_max_proj == c.max_payments[current_voter][1]
    IN  IF current_voter \in st.liquid
        THEN IF \/ RLt(voter_max_pay, pvp)
                \/ (voter_max_pay = pvp /\ voter_max_proj # 0
                    /\ voter_max_proj < c.project)
             THEN [st EXCEPT !.solvent = @ \cup {current_voter},
                             !.liquid = @ \ {current_voter},
                             !.i = @ + 1]
             ELSE [st EXCEPT !.min_increase =
                                RMin(@, RSub(pvp, c.sorted_leftovers[st.i][2])),
                             !.liquid = @ \ {current_voter},
                             !.i = @ + 1]
        ELSE [st EXCEPT !.i = @ + 1]

\* GpcaVoter without the "liquid.remove(current_voter)" of the solvent case
GpcaVoterStaysLiquid(st, c, pvp) ==
    LET current_voter == c.sorted_leftovers[st.i][1]
        voter_max_pay == c.max_payments[current_voter][2]
        voter_max_proj == c.max_payments[current_voter][1]
    IN  IF current_voter \in st.liquid
        THEN IF \/ RLt(pvp, voter_max_pay)
                \/ (voter_max_pay = pvp /\ voter_max_proj # 0
                    /\ voter_max_proj < c.project)
             THEN [st EXCEPT !.solvent = @ \cup {current_voter},
                             !.i = @ + 1]
             ELSE [st EXCEPT !.min_increase =
                                RMin(@, RSub(pvp, c.sorted_leftovers[st.i][2])),
                             !.liquid = @ \ {current_voter},
                             !.i = @ + 1]
        ELSE [st EXCEPT !.i = @ + 1]

\* The voter at the leftover cursor: becomes solvent, or yields a required
\* increase; "else: i += 1" when the voter is not liquid.
GpcaVoter(st, c, pvp) ==
    LET current_voter == c.sorted_leftovers[st.i][1]
        voter_max_pay == c.max_payments[current_voter][2]
        voter_max_proj == c.max_payments[current_voter][1]
    IN  IF current_voter \in st.liquid
        THEN IF \/ RLt(pvp, voter_max_pay)
                \/ (voter_max_pay = pvp /\ voter_max_proj # 0
                    /\ voter_max_proj < c.project)
             THEN [st EXCEPT !.solvent = @ \cup {current_voter},
                             !.liquid = @ \ {current_voter},
                             !.i = @ + 1]
             ELSE [st EXCEPT !.min_increase =
                                RMin(@, RSub(pvp, c.sorted_leftovers[st.i][2])),
                             !.liquid = @ \ {current_voter},
                             !.i = @ + 1]
        ELSE [st EXCEPT !.i = @ + 1]

\* GpcaStep whose deviant case moves both cursors
GpcaStepBothCursors(st, c, pvp) ==
    IF /\ st.j <= Len(c.sorted_max_payments)
       /\ LET max_pay_amount == c.sorted_max_payments[st.j][2][2]
              max_pay_project == c.sorted_max_payments[st.j][2][1]
          IN  \/ RLt(max_pay_amount, pvp)
              \/ (max_pay_amount = pvp /\ max_pay_project # 0
                  /\ max_pay_project > c.project)
    THEN [st EXCEPT !.solvent = @ \ {c.sorted_max_payments[st.j][1]},
                    !.j = @ + 1, !.i = @ + 1]
    ELSE GpcaVoter(st, c, pvp)

\* One iteration of the sweep's body once pvp is known.
GpcaStep(st, c, pvp) ==
    IF /\ st.j <= Len(c.sorted_max_payments)
       /\ LET max_pay_amount == c.sorted_max_payments[st.j][2][2]
              max_pay_project == c.sorted_max_payments[st.j][2][1]
          IN  \/ RLt(max_pay_amount, pvp)
              \/ (max_pay_amount = pvp /\ max_pay_project # 0
                  /\ max_pay_project > c.project)
    THEN [st EXCEPT !.solvent = @ \ {c.sorted_max_payments[st.j][1]},
                    !.j = @ + 1]
    ELSE GpcaVoter(st, c, pvp)

RECURSIVE GpcaSweep(_, _)
\* "while liquid or solvent", with its two breaks; the value returned
GpcaSweep(st, c) ==
    IF st.liquid = {} /\ st.solvent = {} THEN st.min_increase
    ELSE IF st.i > Len(c.sorted_leftovers) THEN st.min_increase
    ELSE LET total_voters == Cardinality(st.liquid) + Cardinality(st.solvent)
                             + c.paying
         IN  IF total_voters = 0 THEN st.min_increase
             ELSE GpcaSweep(GpcaStep(st, c, RDivInt(Rat(cost[c.project]), total_voters)), c)

greedy_project_change_approvals(initial_budget, selected_projects, payments, project) ==
    LET c == GpcaSetup(initial_budget, selected_projects, payments, project)
    IN  IF Len(c.supporters_not_paying) = 0 THEN Inf
        ELSE GpcaSweep(GpcaStart(c), c)

RECURSIVE GpcaRun(_, _, _)
\* The iterations of "while liquid or solvent" that reach the division
\* "pvp = project_cost / total_voters", in order: the state each starts
\* from, its total_voters and the state it leaves.
GpcaRun(trace, st, c) ==
    IF st.liquid = {} /\ st.solvent = {} THEN trace
    ELSE IF st.i > Len(c.sorted_leftovers) THEN trace
    ELSE LET total_voters == Cardinality(st.liquid) + Cardinality(st.solvent)
                             + c.paying
         IN  IF total_voters = 0 THEN trace
             ELSE LET after == GpcaStep(st, c, RDivInt(Rat(cost[c.project]),
                                                      total_voters))
                  IN  GpcaRun(Append(trace, [before |-> st,
                                             total_voters |-> total_voters,
                                             after |-> after]),
                              after, c)

\* The iterations of the sweep of greedy_project_change_approvals for
\* project: none when "if not supporters_not_paying" returns first.
GpcaIterations(initial_budget, selected_projects, payments, project) ==
    LET c == GpcaSetup(initial_budget, selected_projects, payments, project)
    IN  IF Len(c.supporters_not_paying) = 0 THEN <<>>
        ELSE GpcaRun(<<>>, GpcaStart(c), c)

\* KeepMinPositive without "if gp > 0"
KeepMin(d, gp) == RMin(d, gp)

\* "if gp > 0: d = min(d, gp)"
KeepMinPositive(d, gp) == IF RLt(Zero, gp) THEN RMin(d, gp) ELSE d

RECURSIVE AddOptApprovalFrom(_, _, _, _, _)
\* "for p in projects" of add_opt_approval from position k of the enumeration on
AddOptApprovalFrom(d, k, initial_budget, selected_projects, payments) ==
    IF k > Len(project_meta) THEN d
    ELSE AddOptApprovalFrom(
            KeepMinPositive(d, greedy_project_change_approvals(
                initial_budget, selected_projects, payments, project_meta[k])),
            k + 1, initial_budget, selected_projects, payments)

add_opt_approval(initial_budget, selected_projects, payments) ==
    AddOptApprovalFrom(Inf, 1, initial_budget, selected_projects, payments)

\* ------------------------------------- core/add_opt.py: uniform certifier
RECURSIVE ComputeLFrom(_, _, _, _)
\* "for k in range(1, len(sorted_selected_with_bpb) + 1)" from k on: every
\* list is the previous one plus the payments toward the k-th selected
\* project, sorted again. L[1] here is L[0] of the source.
ComputeLFrom(L, k, sorted_selected_with_bpb, payments) ==
    IF k > Len(sorted_selected_with_bpb) THEN L
    ELSE LET last == L[Len(L)]
             project == sorted_selected_with_bpb[k][1]
             L_curr == [i \in DOMAIN last |->
                          <<last[i][1],
                            RAdd(last[i][2], payments[<<last[i][1], project>>])>>]
         IN  ComputeLFrom(Append(L, SortedByValue(L_curr)), k + 1,
                          sorted_selected_with_bpb, payments)

\* _compute_L_lists: starts from the remaining budgets, sorted
compute_L_lists_core(sorted_selected_with_bpb, payments, sh) ==
    ComputeLFrom(<<SortedByValue(Items(sh))>>, 1,
                 sorted_selected_with_bpb, payments)

\* _get_L_Op: every list restricted to the supporters of project who pay
\* nothing for it, sorted again
get_L_Op(L, project, payments) ==
    [k \in DOMAIN L |->
        SortedByValue(SelectSeq(L[k], LAMBDA pair :
                        /\ project \in approved[pair[1]]
                        /\ payments[<<pair[1], project>>] = Zero))]

\* utility_function(project) / PvP if PvP > 0 else 0
CurrentBpb(u, PvP) ==
    IF IsInf(PvP) THEN Zero
    ELSE IF RLt(Zero, PvP) THEN RDiv(u, PvP) ELSE Zero

RECURSIVE PriorityPointer(_, _, _, _)
\* the inner "while i > 0": the position the pointer i stops at
PriorityPointer(i, current_bpb, project, sorted_selected_with_bpb) ==
    IF i = 0 THEN 0
    ELSE LET prev_bpb == sorted_selected_with_bpb[i][2]
             prev_name == sorted_selected_with_bpb[i][1]
         IN  IF \/ RLt(current_bpb, prev_bpb)
                \/ (current_bpb = prev_bpb /\ prev_name < project)
             THEN PriorityPointer(i - 1, current_bpb, project, sorted_selected_with_bpb)
             ELSE i

\* GpcuDivisor that leaves the voter at the cursor out
GpcuDivisorWithoutCurrent(N_p, ell) == N_p - ell - 1

\* "N_p - ell": what project.cost is divided by
GpcuDivisor(N_p, ell) == N_p - ell

RECURSIVE GpcuSweep(_, _, _, _, _, _, _, _)
\* "while i > 0 and ell < len(O_p_X)"; ell counts from 0 as in the source,
\* and L[i] of the source is L[i + 1] here
GpcuSweep(d, ell, i, N_p, O_p_X, sorted_selected_with_bpb, project, L) ==
    IF ~(i > 0 /\ ell < Len(O_p_X)) THEN d
    ELSE LET PvP == IF N_p = 0 THEN Inf
                    ELSE RDivInt(Rat(cost[project]), GpcuDivisor(N_p, ell))
             i2 == PriorityPointer(i, CurrentBpb(cost_utility(project), PvP),
                                   project, sorted_selected_with_bpb)
             d2 == IF i2 > 0 /\ ell < Len(L[i2 + 1])
                   THEN RMin(d, RSub(PvP, L[i2 + 1][ell + 1][2]))
                   ELSE d
         IN  GpcuSweep(d2, ell + 1, i2, N_p, O_p_X, sorted_selected_with_bpb,
                       project, L)

RECURSIVE GpcuRun(_, _, _, _, _, _, _, _, _)
\* The iterations of "while i > 0 and ell < len(O_p_X)", in order: ell and
\* the pointer i at the start, whether PvP is a quotient and its divisor,
\* the candidate's bang-per-buck, the pointer i2 after the inner while,
\* whether L[i2][ell] is read, and d after the iteration.
GpcuRun(trace, d, ell, i, N_p, O_p_X, sorted_selected_with_bpb, project, L) ==
    IF ~(i > 0 /\ ell < Len(O_p_X)) THEN trace
    ELSE LET PvP == IF N_p = 0 THEN Inf
                    ELSE RDivInt(Rat(cost[project]), GpcuDivisor(N_p, ell))
             i2 == PriorityPointer(i, CurrentBpb(cost_utility(project), PvP),
                                   project, sorted_selected_with_bpb)
             reads == i2 > 0 /\ ell < Len(L[i2 + 1])
             d2 == IF reads THEN RMin(d, RSub(PvP, L[i2 + 1][ell + 1][2]))
                   ELSE d
         IN  GpcuRun(Append(trace, [ell |-> ell, i |-> i, divides |-> N_p # 0,
                                    divisor |-> GpcuDivisor(N_p, ell),
                                    current_bpb |->
                                        CurrentBpb(cost_utility(project), PvP),
                                    i2 |-> i2, reads |-> reads, d |-> d2]),
                     d2, ell + 1, i2, N_p, O_p_X, sorted_selected_with_bpb,
                     project, L)

\* The iterations of the sweep of greedy_project_change_uniform for project.
GpcuIterations(sorted_selected_with_bpb, payments, project, L) ==
    LET N_p == Cardinality({v \in Voters : project \in approved[v]})
        O_p_X == SelectSeq(VoterSeq, LAMBDA v :
                    project \in approved[v] /\ payments[<<v, project>>] = Zero)
    IN  GpcuRun(<<>>, Inf, 0, Len(sorted_selected_with_bpb), N_p, O_p_X,
                sorted_selected_with_bpb, project, L)

greedy_project_change_uniform(sorted_selected_with_bpb, payments, project, L) ==
    LET N_p == Cardinality({v \in Voters : project \in approved[v]})
        O_p_X == SelectSeq(VoterSeq, LAMBDA v :
                    project \in approved[v] /\ payments[<<v, project>>] = Zero)
    IN  GpcuSweep(Inf, 0, Len(sorted_selected_with_bpb), N_p, O_p_X,
                  sorted_selected_with_bpb, project, L)

RECURSIVE AddOptCostFrom(_, _, _, _, _)
\* "for p in projects" of add_opt_cost from position k of the enumeration on
AddOptCostFrom(d, k, sorted_selected_with_bpb, payments, L) ==
    IF k > Len(project_meta) THEN d
    ELSE AddOptCostFrom(
            KeepMinPositive(d, greedy_project_change_uniform(
                sorted_selected_with_bpb, payments, project_meta[k],
                get_L_Op(L, project_meta[k], payments))),
            k + 1, sorted_selected_with_bpb, payments, L)

add_opt_cost(sorted_selected_with_bpb, payments, sh) ==
    AddOptCostFrom(Inf, 1, sorted_selected_with_bpb, payments,
                   compute_L_lists_core(sorted_selected_with_bpb, payments, sh))

\* ------------------ scalable_proportional_pb/gpc_uniform.py: its certifier
\* An outcome here is a record [selection_order, payments, leftover_budgets].
\* election.project_supporters(project_id): N_p, the voters who approve p
project_supporters(project_id) == {v \in Voters : project_id \in approved[v]}

\* outcome.payment(v, p): the amount v paid toward p, zero when there is none
payment(outcome, v, p) == outcome.payments[<<v, p>>]

\* outcome.project_payers(project_id): N_p(X), the voters paying for p
project_payers(outcome, project_id) ==
    {v \in Voters : RLt(Zero, payment(outcome, v, project_id))}

RECURSIVE ComputeLBack(_, _, _, _)
\* "for k in range(w - 1, -1, -1)" from k on (k counts from 0 as in the
\* source; L_lists[k] of the source is L_lists[k + 1] here): the payment
\* toward the k-th selected project is added to every voter's running value
\* and the list of all voters, in voter order, is sorted by value.
ComputeLBack(L_lists, current_vals, k, outcome) ==
    IF k < 0 THEN L_lists
    ELSE LET proj_id == outcome.selection_order[k + 1][1]
             vals == [v \in Voters |->
                        RAdd(current_vals[v], payment(outcome, v, proj_id))]
         IN  ComputeLBack([L_lists EXCEPT ![k + 1] = SortedByValue(Items(vals))],
                          vals, k - 1, outcome)

\* compute_L_lists: L_lists[w] holds the leftover budgets, then the lists
\* L_w, ..., L_1 are built walking the selection order backward
compute_L_lists(outcome) ==
    LET w == Len(outcome.selection_order)
    IN  ComputeLBack([k \in 1..(w + 1) |->
                         IF k = w + 1
                         THEN SortedByValue(Items(outcome.leftover_budgets))
                         ELSE <<>>],
                     outcome.leftover_budgets, w - 1, outcome)

\* bpb_for_t: utility(project) * t / cost, 0 for t = 0
bpb_for_t(project_id, t) ==
    IF t = 0 THEN Zero
    ELSE RDivInt(RMul(utility_function(project_id), Rat(t)), cost[project_id])

RECURSIVE GpcPointer(_, _, _, _)
\* the inner "while i > 0" of gpc_uniform.py: the position i stops at
GpcPointer(i, current_bpb, project_id, selection_order) ==
    IF i = 0 THEN 0
    ELSE LET prev_id == selection_order[i][1]
             prev_bpb == selection_order[i][2]
         IN  IF \/ RLt(current_bpb, prev_bpb)
                \/ (current_bpb = prev_bpb /\ project_id < prev_id)
             THEN GpcPointer(i - 1, current_bpb, project_id, selection_order)
             ELSE i

\* GpcFold without its two tests
GpcFoldUnguarded(d, PvP, L_val) == RMin(d, RSub(PvP, L_val))

\* "if L_val >= PvP: pass / else: required = PvP - L_val; if required > 0:
\* if d is None or required < d: d = required"; None is Inf
GpcFold(d, PvP, L_val) ==
    IF RLe(PvP, L_val) THEN d
    ELSE LET required == RSub(PvP, L_val)
         IN  IF RLt(Zero, required) THEN RMin(d, required) ELSE d

RECURSIVE GpcSweep(_, _, _, _, _, _, _)
\* "while i >= 0 and ell < len(O_p_X)"; ell and i count as in the source,
\* L_Op[i] of the source is L_Op[i + 1] here
GpcSweep(d, ell, i, N_p_X_count, O_p_X, outcome, c) ==
    IF ~(i >= 0 /\ ell < Cardinality(O_p_X)) THEN d
    ELSE LET remaining_from_Op == Cardinality(O_p_X) - ell
             t == N_p_X_count + remaining_from_Op
         IN  IF t = 0 THEN d
             ELSE LET PvP == RDivInt(Rat(cost[c.project_id]), t)
                      i2 == GpcPointer(i, bpb_for_t(c.project_id, t), c.project_id,
                                       outcome.selection_order)
                      d2 == IF i2 < Len(c.L_Op) /\ ell < Len(c.L_Op[i2 + 1])
                            THEN GpcFold(d, PvP, c.L_Op[i2 + 1][ell + 1][2])
                            ELSE d
                  IN  GpcSweep(d2, ell + 1, i2, N_p_X_count, O_p_X, outcome, c)

RECURSIVE GpcRun(_, _, _, _, _, _, _, _)
\* The iterations of "while i >= 0 and ell < len(O_p_X)" that pass
\* "if t == 0: break", in order: ell and the pointer i at the start, the
\* divisor t of PvP, the candidate's bang-per-buck, the pointer i2 after
\* the inner while, whether L_Op[i2][ell] is read, and d after the iteration.
GpcRun(trace, d, ell, i, N_p_X_count, O_p_X, outcome, c) ==
    IF ~(i >= 0 /\ ell < Cardinality(O_p_X)) THEN trace
    ELSE LET remaining_from_Op == Cardinality(O_p_X) - ell
             t == N_p_X_count + remaining_from_Op
         IN  IF t = 0 THEN trace
             ELSE LET PvP == RDivInt(Rat(cost[c.project_id]), t)
                      i2 == GpcPointer(i, bpb_for_t(c.project_id, t), c.project_id,
                                       outcome.selection_order)
                      reads == i2 < Len(c.L_Op) /\ ell < Len(c.L_Op[i2 + 1])
                      d2 == IF reads
                            THEN GpcFold(d, PvP, c.L_Op[i2 + 1][ell + 1][2])
                            ELSE d
                  IN  GpcRun(Append(trace, [ell |-> ell, i |-> i, t |-> t,
                                            current_bpb |->
                                                bpb_for_t(c.project_id, t),
                                            i2 |-> i2, reads |-> reads,
                                            d |-> d2]),
                             d2, ell + 1, i2, N_p_X_count, O_p_X, outcome, c)

\* The iterations of the sweep of gpc_uniform.py's certifier for project_id:
\* none when O_p(X) is empty.
GpcIterations(outcome, project_id, L_lists) ==
    LET N_p == project_supporters(project_id)
        N_p_X == project_payers(outcome, project_id)
        O_p_X == N_p \ N_p_X
        L_Op == [k \in DOMAIN L_lists |->
                    SortedByValue(SelectSeq(L_lists[k],
                                            LAMBDA pair : pair[1] \in O_p_X))]
    IN  IF O_p_X = {} THEN <<>>
        ELSE GpcRun(<<>>, Inf, 0, Len(outcome.selection_order),
                    Cardinality(N_p_X), O_p_X, outcome,
                    [project_id |-> project_id, L_Op |-> L_Op])

\* gpc_greedy_project_change_uniform with O_p(X) = N_p: the payers are not
\* taken out
gpc_uniform_all_supporters(outcome, project_id, L_lists) ==
    LET N_p == project_supporters(project_id)
        N_p_X == project_payers(outcome, project_id)
        O_p_X == N_p
        L_Op == [k \in DOMAIN L_lists |->
                    SortedByValue(SelectSeq(L_lists[k],
                                            LAMBDA pair : pair[1] \in O_p_X))]
    IN  IF O_p_X = {} THEN Inf
        ELSE GpcSweep(Inf, 0, Len(outcome.selection_order), Cardinality(N_p_X),
                      O_p_X, outcome, [project_id |-> project_id, L_Op |-> L_Op])

\* greedy_project_change_uniform of gpc_uniform.py; the result None
\* (infinity) is Inf
gpc_greedy_project_change_uniform(outcome, project_id, L_lists) ==
    LET N_p == project_supporters(project_id)
        N_p_X == project_payers(outcome, project_id)
        O_p_X == N_p \ N_p_X
        L_Op == [k \in DOMAIN L_lists |->
                    SortedByValue(SelectSeq(L_lists[k],
                                            LAMBDA pair : pair[1] \in O_p_X))]
    IN  IF O_p_X = {} THEN Inf
        ELSE GpcSweep(Inf, 0, Len(outcome.selection_order), Cardinality(N_p_X),
                      O_p_X, outcome, [project_id |-> project_id, L_Op |-> L_Op])

\* The ADD-OPT aggregator that matches the utility of the run, on the
\* outcome the finished call returned.
AddOpt ==
    IF utility = "cardinal"
    THEN add_opt_approval(budget_limit, Keys(funded_projects), X_payments)
    ELSE add_opt_cost(funded_projects, X_payments, shares)

\* The returned outcome as gpc_uniform.py receives it.
TheOutcome ==
    [selection_order |-> funded_projects, payments |-> X_payments,
     leftover_budgets |-> shares]

\* The three certifiers as their callers apply them to the returned outcome,
\* for project p.
CardinalResult(p) ==
    greedy_project_change_approvals(budget_limit, Keys(funded_projects),
                                    X_payments, p)
CoreUniformResult(p) ==
    greedy_project_change_uniform(
        funded_projects, X_payments, p,
        get_L_Op(compute_L_lists_core(funded_projects, X_payments, shares),
                 p, X_payments))
GpcUniformResult(p) ==
    gpc_greedy_project_change_uniform(TheOutcome, p, compute_L_lists(TheOutcome))

\* The iterations of the three sweeps for project p on the returned outcome.
CardinalIterations(p) ==
    GpcaIterations(budget_limit, Keys(funded_projects), X_payments, p)
\* What greedy_project_change_approvals computes before that sweep.
CardinalSetup(p) ==
    GpcaSetup(budget_limit, Keys(funded_projects), X_payments, p)
CoreUniformIterations(p) ==
    GpcuIterations(
        funded_projects, X_payments, p,
        get_L_Op(compute_L_lists_core(funded_projects, X_payments, shares),
                 p, X_payments))
GpcUniformIterations(p) ==
    GpcIterations(TheOutcome, p, compute_L_lists(TheOutcome))

\* The certifiers that go with the utility of the run.
Certifiers == IF utility = "cardinal" THEN {"cardinal"} ELSE {"core", "gpc"}

ResultOf(certifier, p) ==
    CASE certifier = "cardinal" -> CardinalResult(p)
      [] certifier = "core" -> CoreUniformResult(p)
      [] certifier = "gpc" -> GpcUniformResult(p)

\* A project object that is not among instance.project_meta and that no
\* voter approves: a candidate absent from the election.
ForeignProject == NumProjects + 1

\* A call that ends in an exception instead of a value.
KeyError == <<0, 0>>

\* election.projects[project_id] (gpc_uniform.py:42): the lookup of a project
\* that is not in the election raises
election_projects(project_id) ==
    IF project_id \in Projects THEN project_id ELSE KeyError

\* How the call of a certifier for candidate p on the returned outcome ends:
\* in its result, or in the KeyError of the project lookup, the one place
\* where a certifier looks the candidate up in the election.
CertifierEnds(certifier, p) ==
    CASE certifier = "cardinal" -> CardinalResult(p)
      [] certifier = "core" -> CoreUniformResult(p)
      [] certifier = "gpc" -> IF election_projects(p) = KeyError THEN KeyError
                              ELSE GpcUniformResult(p)

\* ----------------------------------------------- core/ees.py: the actions
NoOutcome == [funded_projects |-> <<>>, X_payments |-> initialize_payments,
              shares |-> [v \in Voters |-> Zero], total_cost |-> Zero,
              budget |-> Zero, asked |-> "none", project |-> 0,
              certifier |-> "none", d |-> Inf]

\* The outcome the finished call returned at budget start_budget, and how
\* the next call relates to it: "same" arguments, a budget "below" the
\* certified increase, or "at" it; for a call made after one "project"'s
\* certifier result d, the project, the certifier and d.
Outcome(asked) ==
    [funded_projects |-> funded_projects, X_payments |-> X_payments,
     shares |-> shares, total_cost |-> total_cost, budget |-> start_budget,
     asked |-> asked, project |-> 0, certifier |-> "none", d |-> Inf]

\* ees_enter whose override is added to the instance's budget
ees_enter_adding(limit, budget) ==
    LET b == IF RLt(Zero, budget) THEN RAdd(limit, budget) ELSE limit
    IN  /\ budget_limit' = b
        /\ start_budget' = b
        /\ budget_arg' = budget
        /\ X_payments' = initialize_payments
        /\ shares' = initialize_shares(b)
        /\ funded_projects' = <<>>
        /\ total_cost' = Zero
        /\ iterations' = 0
        /\ calls' = calls + 1
        /\ pc' = "loop"
        /\ UNCHANGED <<inputs, min_budget_increase, add_one_vars>>

\* The prologue of exact_method_of_equal_shares on an instance whose
\* budget_limit is limit: the budget override, then the data structures.
ees_prologue(limit, budget) ==
    LET b == IF RLt(Zero, budget) THEN budget ELSE limit
    IN  /\ budget_limit' = b
        /\ start_budget' = b
        /\ budget_arg' = budget
        /\ X_payments' = initialize_payments
        /\ shares' = initialize_shares(b)
        /\ funded_projects' = <<>>
        /\ total_cost' = Zero
        /\ iterations' = 0
        /\ calls' = calls + 1
        /\ pc' = "loop"

\* A call of exact_method_of_equal_shares by a caller that passes the
\* utility function of the run.
ees_enter(limit, budget) ==
    /\ ees_prologue(limit, budget)
    /\ UNCHANGED <<inputs, min_budget_increase, add_one_vars>>

\* The budget overrides a first call is made with: none, or the largest budget.
BudgetArgs == {Zero, Rat(MaxBudget)}

\* The first call on an instance.
Call ==
    /\ pc = "idle"
    /\ \E budget \in BudgetArgs : ees_enter(budget_limit, budget)
    /\ UNCHANGED prev

\* An iteration that finds a project and funds it.
FundProject ==
    /\ pc = "loop"
    /\ \E best \in {BestProject} :
        /\ best.project # 0
        /\ \E contribution \in {Contribution(best)}, payers \in {Payers(best)} :
            /\ shares' = [v \in Voters |->
                            IF v \in payers THEN RSub(shares[v], contribution)
                            ELSE shares[v]]
            /\ X_payments' = [vp \in Voters \X Projects |->
                            IF vp[2] = best.project /\ vp[1] \in payers
                            THEN contribution ELSE X_payments[vp]]
            /\ funded_projects' = Append(funded_projects,
                                         <<best.project, best.max_bang_per_buck>>)
            /\ total_cost' = RAdd(total_cost, Rat(cost[best.project]))
    /\ iterations' = iterations + 1
    /\ UNCHANGED <<inputs, budget_limit, budget_arg, pc, start_budget, calls,
                   min_budget_increase, prev, add_one_vars>>

\* The iteration that finds no project: break, return.
Return ==
    /\ pc = "loop"
    /\ BestProject.project = 0
    /\ pc' = "done"
    /\ iterations' = iterations + 1
    /\ UNCHANGED <<inputs, budget_limit, budget_arg, shares, X_payments,
                   funded_projects, total_cost, start_budget, calls,
                   min_budget_increase, prev, add_one_vars>>

\* ------------------------------------------------------- repeated calls
\* A second call with the arguments of the first, on the same instance.
CallAgain ==
    /\ pc = "done"
    /\ calls < MaxCalls
    /\ prev' = Outcome("same")
    /\ ees_enter(budget_limit, budget_arg)

\* The completion loop asks ADD-OPT for the minimum budget increase of the
\* outcome just returned.
Certify ==
    /\ pc = "done"
    /\ calls < MaxCalls
    /\ min_budget_increase' = AddOpt
    /\ pc' = "certified"
    /\ UNCHANGED <<inputs, budget_limit, budget_arg, shares, X_payments,
                   funded_projects, total_cost, start_budget, iterations, calls,
                   prev, add_one_vars>>

\* "if min_budget_increase == float('inf'): break", then the instance's
\* budget raised by min_budget_increase * len(profile) and EES again.
CompletionStep ==
    /\ pc = "certified"
    /\ ~IsInf(min_budget_increase)
    /\ prev' = Outcome("at")
    /\ ees_enter(RAdd(budget_limit, RMul(min_budget_increase, Rat(NumVoters))),
                 Zero)

\* The fractions f, 0 < f < 1, of a certified d that a call probes.
Fractions == {Norm(k, FracDen) : k \in 1..(FracDen - 1)}

\* A call whose budget override is b + n * d' for a d' strictly between 0
\* and the d that ADD-OPT returned for the outcome at budget b.
CallBelow ==
    /\ pc = "certified"
    /\ ~IsInf(min_budget_increase)
    /\ prev' = Outcome("below")
    /\ \E f \in Fractions :
         ees_enter(budget_limit,
                   RAdd(budget_limit,
                        RMul(Rat(NumVoters), RMul(min_budget_increase, f))))

\* The budget raised by n * d for the finite d that one certifier returned
\* for one project on the outcome just returned, and EES again.
ProjectStep ==
    /\ pc = "done"
    /\ calls < MaxCalls
    /\ \E p \in Projects, certifier \in Certifiers :
        \E d \in {ResultOf(certifier, p)} :
            /\ ~IsInf(d)
            /\ prev' = [Outcome("project") EXCEPT !.project = p,
                                                  !.certifier = certifier,
                                                  !.d = d]
            /\ ees_enter(RAdd(budget_limit, RMul(d, Rat(NumVoters))), Zero)

\* ------------------------------------------------------------ the machine
\* The enumeration orders of instance.project_meta: every order of the projects.
Orders ==
    {s \in [1..NumProjects -> Projects] : \A a \in Projects : \E k \in DOMAIN s : s[k] = a}

\* No call of exact_method_of_equal_shares_add_one.
NoAddOne ==
    /\ utility_type = "none"
    /\ stop_on_overspend = FALSE
    /\ add_one_initial_budget = 0
    /\ increase_counter = 0
    /\ highest_spend_so_far = Zero
    /\ best_result_so_far = <<>>
    /\ add_one_pc = "none"

Init ==
    /\ approved \in [Voters -> SUBSET Projects]
    /\ cost \in [Projects -> 1..MaxCost]
    /\ project_meta \in Orders
    /\ utility \in {"cardinal", "cost"}
    /\ budget_limit \in {Rat(b) : b \in 0..MaxBudget}
    /\ budget_arg = Zero
    /\ pc = "idle"
    /\ shares = [v \in Voters |-> Zero]
    /\ X_payments = initialize_payments
    /\ funded_projects = <<>>
    /\ total_cost = Zero
    /\ start_budget = Zero
    /\ iterations = 0
    /\ calls = 0
    /\ min_budget_increase = Inf
    /\ prev = NoOutcome
    /\ NoAddOne

Next ==
    \/ Call \/ FundProject \/ Return
    \/ CallAgain \/ Certify \/ CompletionStep \/ CallBelow \/ ProjectStep

Spec == Init /\ [][Next]_vars

\* ------------------ core/ees.py: exact_method_of_equal_shares_add_one
\* int(x) of a non-negative rational
int(x) == x[1] \div x[2]

\* "match utility_type" with every selector run as cost utility unless it
\* is "cardinal"
match_cost_by_default(t) ==
    IF t = "cardinal" THEN "cardinal" ELSE "cost"

\* "match utility_type": the utility function of the EES variant the
\* matching case calls, or the ValueError that "case _" raises.
match_utility_type(t) ==
    CASE t = "cardinal" -> "cardinal"
      [] t = "cost" -> "cost"
      [] OTHER -> "ValueError"

\* The locals set before the loop.
AddOneCall ==
    /\ add_one_pc = "call"
    /\ add_one_initial_budget' = int(budget_limit)
    /\ increase_counter' = 0
    /\ highest_spend_so_far' = Zero
    /\ best_result_so_far' = <<>>
    /\ add_one_pc' = "match"
    /\ UNCHANGED <<inputs, budget_limit, pc, shares, X_payments,
                   funded_projects, total_cost, start_budget, iterations,
                   calls, budget_arg, min_budget_increase, prev,
                   utility_type, stop_on_overspend>>

\* "case _: raise ValueError(...)"
AddOneRaise ==
    /\ add_one_pc = "match"
    /\ match_utility_type(utility_type) = "ValueError"
    /\ add_one_pc' = "ValueError"
    /\ UNCHANGED <<inputs, budget_limit, pc, shares, X_payments,
                   funded_projects, total_cost, start_budget, iterations,
                   calls, budget_arg, min_budget_increase, prev,
                   utility_type, stop_on_overspend, add_one_initial_budget,
                   increase_counter, highest_spend_so_far,
                   best_result_so_far>>

\* The matching case calls exact_method_of_equal_shares_approval or
\* exact_method_of_equal_shares_cost on the instance, with no override.
AddOneRun ==
    /\ add_one_pc = "match"
    /\ match_utility_type(utility_type) # "ValueError"
    /\ utility' = match_utility_type(utility_type)
    /\ ees_prologue(budget_limit, Zero)
    /\ add_one_pc' = "running"
    /\ UNCHANGED <<approved, cost, project_meta, min_budget_increase, prev,
                   utility_type, stop_on_overspend, add_one_initial_budget,
                   increase_counter, highest_spend_so_far,
                   best_result_so_far>>

\* total_cost > initial_budget
AddOneOverspend == RLt(Rat(add_one_initial_budget), total_cost)

\* "if total_cost <= initial_budget and total_cost > highest_spend_so_far":
\* the returned outcome becomes the best result so far.
AddOneRecord ==
    IF ~AddOneOverspend /\ RLt(highest_spend_so_far, total_cost)
    THEN /\ highest_spend_so_far' = total_cost
         /\ best_result_so_far' =
                <<IF utility = "cardinal" THEN Keys(funded_projects)
                  ELSE funded_projects,
                  X_payments, shares, total_cost>>
    ELSE UNCHANGED <<highest_spend_so_far, best_result_so_far>>

\* One of the two breaks after a returned EES call: the overspend, or
\* every project selected.
AddOneBreak ==
    /\ add_one_pc = "running"
    /\ pc = "done"
    /\ IF stop_on_overspend /\ AddOneOverspend
       THEN UNCHANGED <<highest_spend_so_far, best_result_so_far>>
       ELSE /\ Len(funded_projects) = NumProjects
            /\ AddOneRecord
    /\ add_one_pc' = "unpack"
    /\ UNCHANGED <<inputs, budget_limit, pc, shares, X_payments,
                   funded_projects, total_cost, start_budget, iterations,
                   calls, budget_arg, min_budget_increase, prev,
                   utility_type, stop_on_overspend, add_one_initial_budget,
                   increase_counter>>

\* No break: the counter and the instance's budget go up by one.
AddOneIncrease ==
    /\ add_one_pc = "running"
    /\ pc = "done"
    /\ increase_counter < MaxIncreases
    /\ ~(stop_on_overspend /\ AddOneOverspend)
    /\ Len(funded_projects) # NumProjects
    /\ AddOneRecord
    /\ increase_counter' = increase_counter + 1
    /\ budget_limit' = RAdd(budget_limit, Rat(1))
    /\ add_one_pc' = "match"
    /\ UNCHANGED <<inputs, pc, shares, X_payments, funded_projects,
                   total_cost, start_budget, iterations, calls, budget_arg,
                   min_budget_increase, prev, utility_type,
                   stop_on_overspend, add_one_initial_budget>>

\* "funded_projects, payments, shares, total_cost = best_result_so_far":
\* unpacking the empty list raises, otherwise the wrapper returns.
AddOneReturn ==
    /\ add_one_pc = "unpack"
    /\ add_one_pc' = IF best_result_so_far = <<>> THEN "unpack_error"
                     ELSE "returned"
    /\ UNCHANGED <<inputs, budget_limit, pc, shares, X_payments,
                   funded_projects, total_cost, start_budget, iterations,
                   calls, budget_arg, min_budget_increase, prev,
                   utility_type, stop_on_overspend, add_one_initial_budget,
                   increase_counter, highest_spend_so_far,
                   best_result_so_far>>

\* The budgets of the instances the wrapper is called on.
AddOneBudgets == {Norm(k, 2) : k \in 0..(2 * MaxAddOneBudget)}

\* The utility selectors: the two the match knows and one it does not.
UtilityTypes == {"cardinal", "cost", "ordinal"}

InitAddOne ==
    /\ approved \in [Voters -> SUBSET Projects]
    /\ cost \in [Projects -> 1..MaxCost]
    /\ project_meta \in Orders
    /\ utility = "none"
    /\ budget_limit \in AddOneBudgets
    /\ budget_arg = Zero
    /\ pc = "idle"
    /\ shares = [v \in Voters |-> Zero]
    /\ X_payments = initialize_payments
    /\ funded_projects = <<>>
    /\ total_cost = Zero
    /\ start_budget = Zero
    /\ iterations = 0
    /\ calls = 0
    /\ min_budget_increase = Inf
    /\ prev = NoOutcome
    /\ utility_type \in UtilityTypes
    /\ stop_on_overspend \in BOOLEAN
    /\ add_one_initial_budget = 0
    /\ increase_counter = 0
    /\ highest_spend_so_far = Zero
    /\ best_result_so_far = <<>>
    /\ add_one_pc = "call"

NextAddOne ==
    \/ AddOneCall \/ AddOneRaise \/ AddOneRun \/ FundProject \/ Return
    \/ AddOneBreak \/ AddOneIncrease \/ AddOneReturn

SpecAddOne == InitAddOne /\ [][NextAddOne]_vars

\* ============================================================ the claims
SetMax(S) == CHOOSE x \in S : \A y \in S : y <= x

\* The sizes k for which some k supporters of p each hold at least cost(p)/k.
FeasibleSizes(p, sh) ==
    {k \in 1..Cardinality(get_project_support[p]) :
        \E K \in SUBSET get_project_support[p] :
            /\ Cardinality(K) = k
            /\ \A v \in K : RLe(RDivInt(Rat(cost[p]), k), sh[v])}

\* The voters with a non-zero payment toward p.
PayersOf(p, payments) == {v \in Voters : payments[<<v, p>>] # Zero}

\* The latest funding step: the loop appended a project to the selection order.
Funded == pc = "loop" /\ Len(funded_projects') = Len(funded_projects) + 1
LastFunded == funded_projects'[Len(funded_projects')][1]

\* C1. After every iteration of the funding loop and in the returned outcome,
\* the payments of the supporters of every funded project add up to exactly
\* the project's cost.
C1_ExactProjectFunding ==
    \A k \in 1..Len(funded_projects) :
        LET p == funded_projects[k][1]
        IN  RSum([v \in Voters |-> X_payments[<<v, p>>]], get_project_support[p])
                = Rat(cost[p])

\* A returned outcome in which some payment is not a whole number.
C1_Witness ==
    /\ pc = "done"
    /\ \E vp \in Voters \X Projects : X_payments[vp][2] > 1

\* C2. In a returned outcome on budget b and n voters: total_cost is the sum
\* of the costs of the selected projects, every voter's b/n - shares[v] is
\* the sum of the voter's payments toward the funded projects, and the
\* voters' spending adds up to total_cost.
C2_BudgetConservation ==
    pc = "done" =>
        LET spent == [v \in Voters |->
                        RSub(RDivInt(start_budget, NumVoters), shares[v])]
        IN  /\ total_cost = RSum([p \in Projects |-> Rat(cost[p])], FundedSet)
            /\ \A v \in Voters :
                  spent[v] = RSum([p \in Projects |-> X_payments[<<v, p>>]], FundedSet)
            /\ RSum(spent, Voters) = total_cost

\* A returned outcome with two funded projects in which some voter both paid
\* and kept part of the share.
C2_Witness ==
    /\ pc = "done"
    /\ Len(funded_projects) >= 2
    /\ \E v \in Voters :
          /\ RLt(Zero, shares[v])
          /\ RLt(shares[v], RDivInt(start_budget, NumVoters))

\* The project a funding step funds is, among the unfunded projects some
\* group of whose supporters can share the cost, one of maximal bang-per-buck
\* (at its largest feasible group), and of the largest identifier among those.
C3_Step ==
    Funded =>
        LET cand == {p \in Projects \ FundedSet : FeasibleSizes(p, shares) # {}}
            bpb(p) == calculate_bang_per_buck(p, SetMax(FeasibleSizes(p, shares)))
        IN  /\ LastFunded \in cand
            /\ funded_projects'[Len(funded_projects')][2] = bpb(LastFunded)
            /\ \A p \in cand :
                  \/ RLt(bpb(p), bpb(LastFunded))
                  \/ (bpb(p) = bpb(LastFunded) /\ p <= LastFunded)

\* Voters {1:{A,B}, 2:{A}, 3:{B}}, cost(A) = cost(B) = 2, budget 6, cardinal
\* utility; A is project 1 and B is project 2.
C3_Scenario ==
    /\ NumVoters = 3 /\ NumProjects = 2
    /\ approved = <<{1, 2}, {1}, {2}>>
    /\ cost = <<2, 2>>
    /\ utility = "cardinal"
    /\ start_budget = Rat(6)

C3_ScenarioOutcome ==
    /\ FundedSet = {1, 2}
    /\ total_cost = Rat(4)
    /\ \A vp \in Voters \X Projects :
          X_payments[vp] = IF vp[2] \in approved[vp[1]] THEN Rat(1) ELSE Zero

\* C3. Every iteration funds the feasible unfunded project of maximal
\* bang-per-buck, the largest identifier winning a tie, whatever the order
\* in which the projects are enumerated; and in the three-voter scenario
\* both projects are funded, total_cost is 4 and every contributor pays 1.
C3_BestProjectFunded ==
    /\ [][C3_Step]_vars
    /\ [](C3_Scenario /\ pc = "done" => C3_ScenarioOutcome)

\* The scenario's outcome, with A enumerated first and B funded first on
\* the tie.
C3_Witness ==
    /\ C3_Scenario /\ pc = "done"
    /\ project_meta = <<1, 2>>
    /\ Keys(funded_projects) = <<2, 1>>

\* C4. Along the selection order the bang-per-buck values never increase,
\* and between consecutive projects of equal bang-per-buck the identifier
\* does not increase.
C4_SelectionOrderMonotone ==
    \A k \in 1..(Len(funded_projects) - 1) :
        /\ RLe(funded_projects[k + 1][2], funded_projects[k][2])
        /\ funded_projects[k + 1][2] = funded_projects[k][2]
              => funded_projects[k + 1][1] <= funded_projects[k][1]

\* A returned selection order with a tie between consecutive projects.
C4_Witness ==
    /\ pc = "done"
    /\ \E k \in 1..(Len(funded_projects) - 1) :
          funded_projects[k + 1][2] = funded_projects[k][2]

\* The position (counted from 0) of the poorest supporter of p who affords
\* cost(p) divided by the number of supporters from that position on; the
\* number of supporters when none of them does.
SmallestAffordingIndex(p, sh) ==
    LET supp == filter_sd(SortedByValue(Items(sh)), get_project_support[p])
        m == Len(supp)
        ok == {i \in 0..(m - 1) : RLe(RDivInt(Rat(cost[p]), m - i), supp[i + 1][2])}
    IN  IF ok = {} THEN m ELSE CHOOSE i \in ok : \A j \in ok : i <= j

C5_Step ==
    Funded =>
        LET p == LastFunded
            S == get_project_support[p]
            P == PayersOf(p, X_payments')
            k == Cardinality(P)
        IN  /\ k \in FeasibleSizes(p, shares)
            /\ \A j \in FeasibleSizes(p, shares) : j <= k
            /\ k = Cardinality(S) - SmallestAffordingIndex(p, shares)
            /\ P \subseteq S
            /\ \A v \in P : \A u \in S \ P : RLe(shares[u], shares[v])
            /\ \A v \in P :
                  /\ X_payments'[<<v, p>>] = RDivInt(Rat(cost[p]), k)
                  /\ shares'[v] = RSub(shares[v], RDivInt(Rat(cost[p]), k))
            /\ \A v \in Voters \ P : shares'[v] = shares[v]

\* C5. The scan over a project's supporters finds the largest k such that k
\* supporters can each afford cost/k (the smallest affording index); when
\* the project is funded exactly the k richest supporters pay cost/k each
\* and no other voter's budget changes.
C5_LargestFeasibleGroupPays == [][C5_Step]_vars

\* A funded project one of whose supporters was too poor to be among the
\* payers.
C5_Witness ==
    \E k \in 1..Len(funded_projects) :
        PayersOf(funded_projects[k][1], X_payments)
            # get_project_support[funded_projects[k][1]]

\* C6. Every iteration funds a project that was not funded before or exits:
\* the loop runs at most (number of projects + 1) iterations and the
\* selection order never holds a project twice.
C6_BoundedIterations ==
    /\ iterations <= NumProjects + 1
    /\ pc # "idle" =>
          iterations = Len(funded_projects) + (IF pc = "loop" THEN 0 ELSE 1)
    /\ \A j, k \in 1..Len(funded_projects) :
          funded_projects[j][1] = funded_projects[k][1] => j = k
    /\ pc = "loop" => BestProject.project \notin FundedSet

\* A call that funded every project and stopped in its last possible iteration.
C6_Witness ==
    /\ pc = "done"
    /\ iterations = NumProjects + 1

\* C7. When the call returns no unfunded project is feasible: for no k >= 1
\* are there k supporters whose leftover budgets are each at least cost/k.
C7_NoFeasibleProjectLeft ==
    pc = "done" =>
        \A p \in Projects \ FundedSet : FeasibleSizes(p, shares) = {}

\* A return that leaves a supported project unfunded although its
\* supporters still hold money.
C7_Witness ==
    /\ pc = "done"
    /\ \E p \in Projects \ FundedSet :
          \E v \in get_project_support[p] : RLt(Zero, shares[v])

\* Whether the outcome just returned is the previous call's outcome.
SameOutcome ==
    /\ funded_projects = prev.funded_projects
    /\ X_payments = prev.X_payments

\* C8. A second call with the same arguments on the same instance returns
\* the same selection order with the same bang-per-buck values, the same
\* payments, the same leftover budgets and the same total cost.
C8_RepeatedCallSameOutcome ==
    (pc = "done" /\ prev.asked = "same") =>
        /\ SameOutcome
        /\ shares = prev.shares
        /\ total_cost = prev.total_cost

\* A repeated call, made with a budget override, that funded two projects.
C8_Witness ==
    /\ pc = "done" /\ prev.asked = "same"
    /\ RLt(Zero, budget_arg)
    /\ Len(funded_projects) >= 2

\* C9. The d that ADD-OPT returns is the minimum increase that changes the
\* outcome: a call at b + n*d' with 0 < d' < d returns the same projects in
\* the same order with the same payments, a call at b + n*d does not.
C9_MinimalDestabilizingIncrease ==
    pc = "done" =>
        /\ prev.asked = "below" => SameOutcome
        /\ prev.asked = "at" => ~SameOutcome

\* The results of the certifier that matches the run's utility, one per project.
CertifierResult(p) ==
    IF utility = "cardinal"
    THEN greedy_project_change_approvals(budget_limit, Keys(funded_projects),
                                         X_payments, p)
    ELSE greedy_project_change_uniform(
            funded_projects, X_payments, p,
            get_L_Op(compute_L_lists_core(funded_projects, X_payments, shares),
                     p, X_payments))

\* C10. The aggregate is the minimum of the strictly positive certifier
\* results, or infinity when there is none: it is never zero or negative.
C10_AggregateMinPositive ==
    pc = "certified" =>
        LET positive == {r \in {CertifierResult(p) : p \in Projects} : RLt(Zero, r)}
        IN  /\ RLt(Zero, min_budget_increase)
            /\ min_budget_increase \in positive \cup {Inf}
            /\ \A r \in positive : RLe(min_budget_increase, r)

\* An aggregate computed over a project whose certifier result is zero or
\* negative.
C10_Witness ==
    /\ pc = "certified"
    /\ \E p \in Projects : RLe(CertifierResult(p), Zero)

\* O_p: the supporters of p who pay nothing for it in the returned outcome.
NotPaying(p) == {v \in get_project_support[p] : X_payments[<<v, p>>] = Zero}

C12_UniformResultPositive ==
    (pc = "done" /\ utility = "cost") =>
        \A p \in Projects :
            /\ RLt(Zero, CoreUniformResult(p))
            /\ RLt(Zero, GpcUniformResult(p))

\* C13. When no supporter of a project is left who pays nothing for it (the
\* project has no supporters, or it is funded and all its supporters pay),
\* the cardinal certifier and both uniform certifiers return infinity, the
\* no-instability sentinel.
C13_EmptyOpNoInstability ==
    pc = "done" =>
        \A p \in Projects :
            NotPaying(p) = {} =>
                /\ IsInf(CardinalResult(p))
                /\ IsInf(CoreUniformResult(p))
                /\ IsInf(GpcUniformResult(p))

\* A returned outcome with a project nobody approves and a funded project
\* paid by all of its two or more supporters.
C13_Witness ==
    /\ pc = "done"
    /\ \E p, q \in Projects :
          /\ get_project_support[p] = {}
          /\ q \in FundedSet
          /\ Cardinality(get_project_support[q]) >= 2
          /\ NotPaying(q) = {}

\* C14. When EES funds nothing under cost utility, both uniform certifiers
\* return the exact gap for every project p that has supporters: all
\* leftovers are b/n, and the result is cost(p)/|N_p| - b/n when that is
\* positive (a single voter with budget 5 and a project of cost 10: d = 5).
C14_ExactGapWhenNothingFunded ==
    (pc = "done" /\ utility = "cost" /\ funded_projects = <<>>) =>
        \A p \in Projects :
            LET N_p == get_project_support[p]
                gap == RSub(RDivInt(Rat(cost[p]), Cardinality(N_p)),
                            RDivInt(start_budget, NumVoters))
            IN  (N_p # {} /\ RLt(Zero, gap)) =>
                    /\ CoreUniformResult(p) = gap
                    /\ GpcUniformResult(p) = gap

\* The unfunded projects with supporters all of whom have no leftover budget
\* and pay toward some funded project.
SpentSupporters(p) ==
    /\ p \notin FundedSet
    /\ get_project_support[p] # {}
    /\ \A v \in get_project_support[p] :
          /\ shares[v] = Zero
          /\ \E q \in FundedSet : RLt(Zero, X_payments[<<v, q>>])

\* C15 as stated: if every supporter of an unfunded project pays toward
\* another funded project and has zero leftover budget, the cardinal
\* certifier returns infinity for that project, no finite value.
C15_SpentSupportersNoInstability ==
    pc = "done" =>
        \A p \in Projects : SpentSupporters(p) => IsInf(CardinalResult(p))

\* C15, amended. For such a project the cardinal certifier never returns
\* zero: it returns infinity or the strictly positive price cost(p)/t of
\* some t between 1 and the number of supporters, and it returns a finite
\* value whenever some supporter's largest payment is below cost(p)/|N_p|.
C15_SpentSupportersNeverZero ==
    pc = "done" =>
        \A p \in Projects :
            SpentSupporters(p) =>
                LET N_p == get_project_support[p]
                    prices == {RDivInt(Rat(cost[p]), t) : t \in 1..Cardinality(N_p)}
                    d == CardinalResult(p)
                IN  /\ d # Zero
                    /\ d \in prices \cup {Inf}
                    /\ (\E v \in N_p : \A q \in Projects :
                            RLt(X_payments[<<v, q>>],
                                RDivInt(Rat(cost[p]), Cardinality(N_p))))
                          => ~IsInf(d)

\* A returned outcome with such a project and a finite certifier result.
C15_Witness ==
    /\ pc = "done"
    /\ \E p \in Projects : SpentSupporters(p) /\ ~IsInf(CardinalResult(p))

\* What the L-lists of the returned outcome have to be: w + 1 lists over
\* all the voters, each ascending by value, the last one holding the
\* leftover budgets and the k-th one the (k+1)-th plus the payments toward
\* the k-th project of the selection order.
LListsOfOutcome(L) ==
    LET w == Len(funded_projects)
        at(k, v) == L[k][CHOOSE i \in DOMAIN L[k] : L[k][i][1] = v][2]
    IN  /\ Len(L) = w + 1
        /\ \A k \in 1..(w + 1) :
              /\ Len(L[k]) = NumVoters
              /\ \A v \in Voters : \E i \in DOMAIN L[k] : L[k][i][1] = v
              /\ \A i, j \in DOMAIN L[k] : i < j => RLe(L[k][i][2], L[k][j][2])
        /\ \A v \in Voters : at(w + 1, v) = shares[v]
        /\ \A k \in 1..w : \A v \in Voters :
              at(k, v) = RAdd(at(k + 1, v), X_payments[<<v, funded_projects[k][1]>>])

\* C16. The L-lists that compute_L_lists (gpc_uniform.py) and
\* _compute_L_lists (add_opt.py) build from a returned outcome with w
\* funded projects are w + 1 lists sorted ascending by value, L[w] holding
\* the leftover budgets and L[k] = L[k+1] + the payments toward the k-th
\* selected project.
C16_LListsBackward ==
    pc = "done" =>
        /\ LListsOfOutcome(compute_L_lists(TheOutcome))
        /\ LListsOfOutcome(compute_L_lists_core(funded_projects, X_payments, shares))

\* The table has an entry for every pair; an entry is zero for an unfunded
\* project, and a non-zero entry belongs to a voter who approves the funded
\* project and is the equal part cost/k of its k contributors.
C17_Table ==
    /\ DOMAIN X_payments = Voters \X Projects
    /\ \A vp \in Voters \X Projects :
          /\ vp[2] \notin FundedSet => X_payments[vp] = Zero
          /\ X_payments[vp] # Zero =>
                /\ vp[2] \in approved[vp[1]]
                /\ X_payments[vp] =
                      RDivInt(Rat(cost[vp[2]]),
                              Cardinality(PayersOf(vp[2], X_payments)))

\* A funding step writes only the entries of the k contributors of the
\* funded project, the k richest of its supporters for the largest feasible
\* k; every other entry keeps its value, zero included.
C17_Step ==
    Funded =>
        LET p == LastFunded
            K == PayersOf(p, X_payments')
        IN  /\ K \subseteq get_project_support[p]
            /\ Cardinality(K) \in FeasibleSizes(p, shares)
            /\ \A j \in FeasibleSizes(p, shares) : j <= Cardinality(K)
            /\ \A v \in K : \A u \in get_project_support[p] \ K :
                  RLe(shares[u], shares[v])
            /\ \A vp \in Voters \X Projects :
                  (vp[2] # p \/ vp[1] \notin K) => X_payments'[vp] = X_payments[vp]

\* C17. The payments table of an outcome has an entry for every (voter,
\* project) pair, exactly zero for every unfunded project and for every
\* voter who did not contribute to a funded project, and non-zero only for
\* a voter who approves the project and was among its k contributors.
C17_PaymentsTableZeroByDefault == []C17_Table /\ [][C17_Step]_vars

\* A returned outcome with two funded projects, one of which has a supporter
\* who did not contribute to it.
C17_Witness ==
    /\ pc = "done"
    /\ Len(funded_projects) = 2
    /\ \E q \in FundedSet : \E v, u \in get_project_support[q] :
          X_payments[<<v, q>>] = Zero /\ X_payments[<<u, q>>] # Zero

\* The call just returned was made at b + n*d for the finite d that a
\* certifier gave for a project on the previous outcome, at budget b.
AfterProjectStep == pc = "done" /\ prev.asked = "project"

C19_RunLeavesBudgetAlone ==
    [][(pc = "idle" \/ pc = "loop") => budget_limit' = budget_limit]_vars

\* The utility selector is neither "cardinal" nor "cost".
InvalidSelector == utility_type # "cardinal" /\ utility_type # "cost"

C20_NothingRun ==
    InvalidSelector =>
        /\ add_one_pc \in {"call", "match", "ValueError"}
        /\ calls = 0
        /\ pc = "idle"
        /\ funded_projects = <<>>
        /\ increase_counter = 0

C20_Step ==
    InvalidSelector =>
        /\ budget_limit' = budget_limit
        /\ calls' = calls
        /\ (add_one_pc = "match" => add_one_pc' = "ValueError")

\* C20: with a utility selector that is neither cardinal nor cost,
\* exact_method_of_equal_shares_add_one raises its ValueError at the first
\* match: no EES call has been made or is made, and no step changes the
\* instance's budget_limit.
C20_InvalidSelectorRaisesFirst ==
    []C20_NothingRun /\ [][C20_Step]_vars

\* The wrapper has raised for an invalid selector, on an instance with a
\* positive budget.
C20_Witness ==
    /\ InvalidSelector
    /\ add_one_pc = "ValueError"
    /\ RLt(Zero, budget_limit)

\* C21: a certifier given a candidate project that is absent from the
\* election ends in an error: it returns neither a d nor the no-instability
\* sentinel.
C21_ForeignCandidateRaises ==
    pc = "done" =>
        \A certifier \in Certifiers :
            CertifierEnds(certifier, ForeignProject) = KeyError

Last(seq) == seq[Len(seq)]

\* C22: no certifier divides by a zero contributor count. On every returned
\* outcome and for every project, each iteration of the cardinal sweep
\* divides the cost by total_voters >= 1, each iteration of add_opt.py's
\* uniform sweep divides it by N_p - ell >= 1 and each iteration of
\* gpc_uniform.py's sweep by t >= 1; no iteration works with a count of 0.
C22_DivisorAtLeastOne ==
    pc = "done" =>
        \A p \in Projects :
            /\ \A run \in {CardinalIterations(p)} :
                    \A k \in DOMAIN run : run[k].total_voters >= 1
            /\ \A run \in {CoreUniformIterations(p)} :
                    \A k \in DOMAIN run : run[k].divides /\ run[k].divisor >= 1
            /\ \A run \in {GpcUniformIterations(p)} :
                    \A k \in DOMAIN run : run[k].t >= 1

\* A returned outcome on which all three sweeps, for one project, reach the
\* divisor 1 after a larger one.
C22_Witness ==
    /\ pc = "done"
    /\ \E p \in Projects :
        /\ \E run \in {CardinalIterations(p)} :
                Len(run) >= 2 /\ Last(run).total_voters = 1
        /\ \E run \in {CoreUniformIterations(p)} :
                Len(run) >= 2 /\ Last(run).divisor = 1
        /\ \E run \in {GpcUniformIterations(p)} :
                Len(run) >= 2 /\ Last(run).t = 1

\* The projects no voter approves.
Unapproved == {p \in Projects : \A v \in Voters : p \notin approved[v]}

\* C23: the support index has an entry for every project of the election,
\* the entry of a project no voter approves is the empty collection, and at
\* no step of an EES run, whatever the budget, is a project funded that no
\* voter approves.
C23_UnsupportedNeverFunded ==
    /\ DOMAIN get_project_support = {project_meta[k] : k \in DOMAIN project_meta}
    /\ \A p \in Unapproved : get_project_support[p] = {}
    /\ FundedSet \cap Unapproved = {}

\* A run at the largest budget that returned with a project funded and the
\* project no voter approves left out.
C23_Witness ==
    /\ pc = "done"
    /\ start_budget = Rat(MaxBudget)
    /\ Unapproved # {}
    /\ FundedSet = Projects \ Unapproved
    /\ FundedSet # {}

\* The selected project at position m of the selection order (position
\* i - 1 of the source for i = m) has a strictly higher bang-per-buck than
\* the candidate p's current_bpb, or the same and a smaller identifier.
AheadOf(m, current_bpb, p) ==
    \/ RLt(current_bpb, funded_projects[m][2])
    \/ (current_bpb = funded_projects[m][2] /\ funded_projects[m][1] < p)

\* In one iteration for candidate p the pointer went from it.i down to
\* it.i2 exactly while the project before it was AheadOf the candidate.
PointerStopsAtInsertionPoint(it, p) ==
    /\ \A m \in (it.i2 + 1)..it.i : AheadOf(m, it.current_bpb, p)
    /\ (it.i2 > 0 => ~AheadOf(it.i2, it.current_bpb, p))

\* C24: in both uniform certifiers the pointer i is decremented exactly
\* while the project at position i - 1 has a strictly higher bang-per-buck
\* than the candidate's, or an equal one and a smaller identifier; with an
\* equal bang-per-buck and a larger identifier there it is not decremented.
C24_PointerTieBreak ==
    (pc = "done" /\ utility = "cost") =>
        \A p \in Projects :
            /\ \A run \in {CoreUniformIterations(p)} :
                    \A k \in DOMAIN run : PointerStopsAtInsertionPoint(run[k], p)
            /\ \A run \in {GpcUniformIterations(p)} :
                    \A k \in DOMAIN run : PointerStopsAtInsertionPoint(run[k], p)

\* An iteration of a uniform sweep that respects the stop at i = 0: it
\* starts with i > 0, and when its inner while brings the pointer to 0 it
\* reads no L-list entry and leaves d as it was before the iteration.
StopsAtZero(run, k) ==
    /\ run[k].i > 0
    /\ (run[k].i2 = 0 =>
            /\ ~run[k].reads
            /\ run[k].d = IF k = 1 THEN Inf ELSE run[k - 1].d)

\* C25: the sweep of both uniform certifiers stops as soon as ell reaches
\* |O_p| or the pointer i reaches 0: once i is 0 no L-list entry is read
\* (L_lists[0] never is) and nothing more is folded into the minimum.
C25_SweepStopsAtZero ==
    (pc = "done" /\ utility = "cost") =>
        \A p \in Projects :
            /\ \A run \in {CoreUniformIterations(p)} :
                    \A k \in DOMAIN run :
                        run[k].ell < Cardinality(NotPaying(p)) /\ StopsAtZero(run, k)
            /\ \A run \in {GpcUniformIterations(p)} :
                    \A k \in DOMAIN run :
                        run[k].ell < Cardinality(NotPaying(p)) /\ StopsAtZero(run, k)

\* An iteration of the cardinal sweep moves exactly one of the cursors i
\* and j, by one.
OneCursorAdvances(it) ==
    \/ (it.after.i = it.before.i + 1 /\ it.after.j = it.before.j)
    \/ (it.after.j = it.before.j + 1 /\ it.after.i = it.before.i)

\* The k-th iteration of a uniform sweep has ell = k - 1, starts from the
\* pointer the iteration before left, and does not raise the pointer.
EllAdvances(run, k, w) ==
    /\ run[k].ell = k - 1
    /\ run[k].i = IF k = 1 THEN w ELSE run[k - 1].i2
    /\ run[k].i2 <= run[k].i

\* C26: every certifier sweep ends within a number of iterations bounded by
\* the voter set: each iteration of the cardinal sweep advances the cursor
\* i or the cursor j by one and there are at most 2 * |O_p| of them; each
\* iteration of a uniform sweep advances ell by one, there are at most
\* |O_p| of them and the pointer i only decreases.
C26_SweepsBounded ==
    pc = "done" =>
        \A p \in Projects :
            /\ \A run \in {CardinalIterations(p)} :
                    /\ Len(run) <= 2 * Cardinality(NotPaying(p))
                    /\ \A k \in DOMAIN run : OneCursorAdvances(run[k])
            /\ \A run \in {CoreUniformIterations(p)} :
                    /\ Len(run) <= Cardinality(NotPaying(p))
                    /\ \A k \in DOMAIN run :
                            EllAdvances(run, k, Len(funded_projects))
            /\ \A run \in {GpcUniformIterations(p)} :
                    /\ Len(run) <= Cardinality(NotPaying(p))
                    /\ \A k \in DOMAIN run :
                            EllAdvances(run, k, Len(funded_projects))

\* A returned outcome with a project whose cardinal sweep takes all its
\* 2 * |O_p| iterations, |O_p| >= 2, and a project whose uniform sweep
\* takes two iterations or more and lowers the pointer.
C26_Witness ==
    /\ pc = "done"
    /\ \E p \in Projects :
        /\ Cardinality(NotPaying(p)) >= 2
        /\ Len(CardinalIterations(p)) = 2 * Cardinality(NotPaying(p))
    /\ \E p \in Projects :
        \E run \in {CoreUniformIterations(p)} :
            /\ Len(run) >= 2
            /\ \E k \in DOMAIN run : run[k].i2 < run[k].i

\* One of the two breaks can still come: the overspend break is on, or no
\* project is without approvers (such a project is never selected).
AddOneCanStillEnd == stop_on_overspend \/ Unapproved = {}

\* The EES call made after increase_counter increases has returned and
\* neither break is taken: the loop goes on.
AddOneGoesOn ==
    /\ add_one_pc = "running"
    /\ pc = "done"
    /\ ~(stop_on_overspend /\ AddOneOverspend)
    /\ Len(funded_projects) # NumProjects

\* C27: exact_method_of_equal_shares_add_one always terminates. A call that
\* goes on after MaxIncreases unit increases of the budget is one that a
\* break can still end.
C27_AddOneTerminates ==
    (increase_counter = MaxIncreases /\ AddOneGoesOn) => AddOneCanStillEnd

\* The voters whose remaining budget the step changes.
Debited == {v \in Voters : shares'[v] # shares[v]}

\* Every voter's remaining budget lies between 0 and the initial share b/n.
C28_Inv ==
    pc \in {"loop", "done"} =>
        \A v \in Voters :
            /\ RLe(Zero, shares[v])
            /\ RLe(shares[v], RDivInt(start_budget, NumVoters))

\* A funding step debits at least one voter, each of them by the cost over
\* the number of debited voters, and only voters who have that much left.
C28_Step ==
    Funded =>
        /\ Debited # {}
        /\ \A v \in Debited :
              \E per_capita \in {RDivInt(Rat(cost[LastFunded]),
                                          Cardinality(Debited))} :
                  /\ RLe(per_capita, shares[v])
                  /\ shares'[v] = RSub(shares[v], per_capita)

\* C28: in every reachable state of the EES loop every voter's remaining
\* budget is at least 0 and at most the initial share b/n, and a voter is
\* debited only when their remaining budget is at least the per-capita
\* contribution.
C28_SharesWithinInitialShare == [](C28_Inv) /\ [][C28_Step]_vars

\* A returned outcome in which a voter has spent the whole of a positive
\* share and a supporter of a funded project, unable to afford the
\* contribution, was not debited for it.
C28_Witness ==
    /\ pc = "done"
    /\ \E v \in Voters :
          shares[v] = Zero /\ RLt(Zero, RDivInt(start_budget, NumVoters))
    /\ \E p \in FundedSet : \E v \in get_project_support[p] :
          X_payments[<<v, p>>] = Zero

\* The voters the max-payment cursor has passed when it stands at j.
PassedByJ(c, j) == {c.sorted_max_payments[m][1] : m \in 1..(j - 1)}

\* liquid and solvent are disjoint subsets of O_p.
DisjointInOp(st, p) ==
    /\ st.liquid \cap st.solvent = {}
    /\ (st.liquid \cup st.solvent) \subseteq NotPaying(p)

\* One iteration of the cardinal sweep for p keeps liquid and solvent
\* disjoint within O_p, does not increase |liquid| + |solvent|, and adds no
\* voter to solvent whom the cursor j has passed.
SweepStepOK(it, c, p) ==
    /\ DisjointInOp(it.before, p)
    /\ DisjointInOp(it.after, p)
    /\ Cardinality(it.after.liquid) + Cardinality(it.after.solvent)
          <= Cardinality(it.before.liquid) + Cardinality(it.before.solvent)
    /\ (it.after.solvent \ it.before.solvent) \cap PassedByJ(c, it.before.j) = {}

\* C29: throughout the cardinal sweep of greedy_project_change_approvals
\* liquid and solvent are disjoint subsets of O_p, |liquid| + |solvent| never
\* increases, so that PvP = cost / total_voters never decreases from one
\* step to the next, and a voter the max-payment cursor j has passed is
\* never afterwards added to solvent.
C29_CardinalSweepInvariants ==
    pc = "done" =>
        \A p \in Projects :
            \A run \in {CardinalIterations(p)}, c \in {CardinalSetup(p)} :
                \A k \in DOMAIN run :
                    /\ SweepStepOK(run[k], c, p)
                    /\ k > 1 =>
                          /\ run[k].before = run[k - 1].after
                          /\ RLe(RDivInt(Rat(cost[p]), run[k - 1].total_voters),
                                 RDivInt(Rat(cost[p]), run[k].total_voters))

\* A sweep on a cardinal outcome in which a voter whom the cursor j had
\* passed came up at the leftover cursor while still liquid, and
\* total_voters went down from one iteration to the next.
C29_Witness ==
    /\ pc = "done"
    /\ utility = "cardinal"
    /\ funded_projects # <<>>
    /\ \E p \in Projects :
          \E run \in {CardinalIterations(p)}, c \in {CardinalSetup(p)} :
              /\ \E k \in DOMAIN run :
                    /\ run[k].after.i = run[k].before.i + 1
                    /\ c.sorted_leftovers[run[k].before.i][1]
                          \in run[k].before.liquid \cap PassedByJ(c, run[k].before.j)
              /\ \E k \in DOMAIN run :
                    k > 1 /\ run[k].total_voters < run[k - 1].total_voters

\* C30: the two implementations of the uniform certifier agree: on every
\* outcome EES returns under cost utility and for every project,
\* greedy_project_change_uniform of core/add_opt.py, fed by _compute_L_lists
\* and _get_L_Op, returns the same d as greedy_project_change_uniform of
\* gpc_uniform.py fed by compute_L_lists (infinity standing for None).
C30_UniformCertifiersAgree ==
    (pc = "done" /\ utility = "cost") =>
        \A p \in Projects : CoreUniformResult(p) = GpcUniformResult(p)
====
